---- MODULE Spec2Model ----
(***************************************************************************)
(* A model of scripts/clean_data.py: the DataCleaner pipeline that loads a *)
(* CSV file of e-commerce orders into a table, runs nine cleaning steps    *)
(* over it in place and records what each step changed in cleaning_log.    *)
(*                                                                         *)
(* Text is modelled by TLA+ strings (Len, SubSeq, Head, Tail and \o work   *)
(* on them in TLC); a character is a string of length one.  A cell of the  *)
(* table is a record [kind, s]: kind is "absent" (NaN), "text" (a Python   *)
(* str), "int" or "float" (a number, s holding its Python repr).  The      *)
(* library semantics assumed are those of pandas 1.x/2.x and CPython 3.    *)
(***************************************************************************)
EXTENDS Integers, Sequences, FiniteSets, TLC

VARIABLES csv, df, original_df, dtype, cleaning_log, calls, raised, run, now,
          before, log_before, pads_year

vars == <<csv, df, original_df, dtype, cleaning_log, calls, raised, run, now, pads_year,
          before, log_before>>

(***************************************************************************)
(* Characters and strings                                                  *)
(***************************************************************************)
Ch(s, i) == SubSeq(s, i, i)

Last(s) == Ch(s, Len(s))

Front(s) == SubSeq(s, 1, Len(s) - 1)

CharsOf(s) == {Ch(s, i) : i \in 1..Len(s)}

Uppers == "ABCDEFGHIJKLMNOPQRSTUVWXYZ"

Lowers == "abcdefghijklmnopqrstuvwxyz"

DigitChars == "0123456789"

UpperSet == CharsOf(Uppers)

LowerSet == CharsOf(Lowers)

LetterSet == UpperSet \cup LowerSet

DigitSet == CharsOf(DigitChars)

\* What str.strip() removes and the regex class \s matches (ASCII part).
WhitespaceSet == {" ", "\t", "\n", "\r", "\f"}

IndexIn(c, alphabet) == CHOOSE i \in 1..Len(alphabet) : Ch(alphabet, i) = c

LowerChar(c) == IF c \in UpperSet THEN Ch(Lowers, IndexIn(c, Uppers)) ELSE c

UpperChar(c) == IF c \in LowerSet THEN Ch(Uppers, IndexIn(c, Lowers)) ELSE c

DigitVal(c) == IndexIn(c, DigitChars) - 1

DigitOf(n) == Ch(DigitChars, n + 1)

RECURSIVE Lower(_)
Lower(s) == IF s = "" THEN "" ELSE LowerChar(Head(s)) \o Lower(Tail(s))

RECURSIVE LStrip(_)
LStrip(s) == IF s # "" /\ Head(s) \in WhitespaceSet THEN LStrip(Tail(s)) ELSE s

RECURSIVE RStrip(_)
RStrip(s) == IF s # "" /\ Last(s) \in WhitespaceSet THEN RStrip(Front(s)) ELSE s

Strip(s) == RStrip(LStrip(s))

\* str.replace(r'\s+', ' ', regex=True): every maximal run of whitespace
\* becomes one space.
RECURSIVE CollapseWhitespace(_)
CollapseWhitespace(s) ==
    IF s = "" THEN ""
    ELSE IF Head(s) \in WhitespaceSet
         THEN " " \o CollapseWhitespace(LStrip(s))
         ELSE Head(s) \o CollapseWhitespace(Tail(s))

\* str.replace(old, new) for a single character old.
RECURSIVE ReplaceChar(_, _, _)
ReplaceChar(s, old, new) ==
    IF s = "" THEN ""
    ELSE (IF Head(s) = old THEN new ELSE Head(s)) \o ReplaceChar(Tail(s), old, new)

\* re.sub(r'\D', '', s): the decimal digits of s, in order.
RECURSIVE DigitsOnly(_)
DigitsOnly(s) ==
    IF s = "" THEN ""
    ELSE (IF Head(s) \in DigitSet THEN Head(s) ELSE "") \o DigitsOnly(Tail(s))

AllIn(s, set) == \A i \in 1..Len(s) : Ch(s, i) \in set

\* str.title(): a letter is upper-cased when the character before it is not
\* a letter and lower-cased when it is.
RECURSIVE TitleFrom(_, _)
TitleFrom(s, prevCased) ==
    IF s = "" THEN ""
    ELSE LET c == Head(s)
         IN (IF c \in LetterSet
             THEN (IF prevCased THEN LowerChar(c) ELSE UpperChar(c))
             ELSE c) \o TitleFrom(Tail(s), c \in LetterSet)

Title(s) == TitleFrom(s, FALSE)

StartsWith(s, p) == Len(s) >= Len(p) /\ SubSeq(s, 1, Len(p)) = p

(***************************************************************************)
(* Cells                                                                   *)
(***************************************************************************)
Absent == [kind |-> "absent", s |-> ""]

Text(s) == [kind |-> "text", s |-> s]

IsNa(cell) == cell.kind = "absent"

NotNa(cell) == cell.kind # "absent"

\* str(value): a str is itself, a number is its repr, NaN is 'nan'.
Str(cell) == IF cell.kind = "absent" THEN "nan" ELSE cell.s

(***************************************************************************)
(* Numbers.  A parsed number is a record [cls, neg, ip, fp]: cls is "err"  *)
(* (ValueError), "nan", "inf" or "fin"; a finite one is the exact decimal  *)
(* (-1)^neg * ip.fp with ip free of leading zeros and fp free of trailing  *)
(* zeros.  Digit strings keep every magnitude exact (a ten-digit phone     *)
(* number read as a float included).  The grammar is float()'s without    *)
(* exponents and underscores, which no input of the model contains; the    *)
(* inputs stay within the range where a float's repr is positional and     *)
(* exact.                                                                  *)
(***************************************************************************)
NumErr == [cls |-> "err", neg |-> FALSE, ip |-> "0", fp |-> ""]

NumNan == [cls |-> "nan", neg |-> FALSE, ip |-> "0", fp |-> ""]

NumInf(neg) == [cls |-> "inf", neg |-> neg, ip |-> "0", fp |-> ""]

RECURSIVE StripLeadingZeros(_)
StripLeadingZeros(d) ==
    IF Len(d) > 1 /\ Head(d) = "0" THEN StripLeadingZeros(Tail(d))
    ELSE IF d = "" THEN "0" ELSE d

RECURSIVE StripTrailingZeros(_)
StripTrailingZeros(d) ==
    IF d # "" /\ Last(d) = "0" THEN StripTrailingZeros(Front(d)) ELSE d

NumFin(neg, ip, fp) ==
    [cls |-> "fin", neg |-> neg, ip |-> StripLeadingZeros(ip),
     fp |-> StripTrailingZeros(fp)]

\* Position of the first "." of s, or 0.
DotAt(s) ==
    IF \E i \in 1..Len(s) : Ch(s, i) = "."
    THEN CHOOSE i \in 1..Len(s) : Ch(s, i) = "." /\ \A j \in 1..(i - 1) : Ch(s, j) # "."
    ELSE 0

\* The unsigned part of a float literal.
ParseUnsigned(neg, body) ==
    LET low == Lower(body)
        dot == DotAt(body)
        ip  == IF dot = 0 THEN body ELSE SubSeq(body, 1, dot - 1)
        fp  == IF dot = 0 THEN "" ELSE SubSeq(body, dot + 1, Len(body))
    IN IF low \in {"inf", "infinity"} THEN NumInf(neg)
       ELSE IF low = "nan" THEN NumNan
       ELSE IF /\ AllIn(ip, DigitSet) /\ AllIn(fp, DigitSet)
               /\ Len(ip) + Len(fp) > 0
            THEN NumFin(neg, ip, fp)
            ELSE NumErr

\* float(s): surrounding whitespace is ignored, then an optional sign.
ParseFloat(s) ==
    LET t == Strip(s)
    IN IF t = "" THEN NumErr
       ELSE IF Head(t) = "-" THEN ParseUnsigned(TRUE, Tail(t))
       ELSE IF Head(t) = "+" THEN ParseUnsigned(FALSE, Tail(t))
       ELSE ParseUnsigned(FALSE, t)

IsZero(num) == num.cls = "fin" /\ num.ip = "0" /\ num.fp = ""

\* x <= 0 on floats: false for NaN.
LeqZero(num) ==
    \/ num.cls = "inf" /\ num.neg
    \/ num.cls = "fin" /\ (num.neg \/ IsZero(num))

\* A digit string plus one.
RECURSIVE IncDigits(_)
IncDigits(d) ==
    IF d = "" THEN "1"
    ELSE IF Last(d) = "9" THEN IncDigits(Front(d)) \o "0"
    ELSE Front(d) \o DigitOf(DigitVal(Last(d)) + 1)

\* round(x, 2).  A decimal tie (third fractional digit 5, nothing after it)
\* is rounded half to even, which is what round() gives when the tie is
\* exact in binary.
Round2(num) ==
    IF num.cls # "fin" \/ Len(num.fp) <= 2 THEN num
    ELSE LET keep == SubSeq(num.fp, 1, 2)
             d3   == DigitVal(Ch(num.fp, 3))
             rest == SubSeq(num.fp, 4, Len(num.fp))
             up   == \/ d3 > 5
                     \/ d3 = 5 /\ rest # ""
                     \/ d3 = 5 /\ rest = "" /\ DigitVal(Ch(keep, 2)) % 2 = 1
             all  == IF up THEN IncDigits(num.ip \o keep) ELSE num.ip \o keep
         IN NumFin(num.neg, SubSeq(all, 1, Len(all) - 2),
                   SubSeq(all, Len(all) - 1, Len(all)))

\* repr(float)
ReprFloat(num) ==
    IF num.cls = "inf" THEN (IF num.neg THEN "-inf" ELSE "inf")
    ELSE (IF num.neg THEN "-" ELSE "") \o num.ip \o "."
         \o (IF num.fp = "" THEN "0" ELSE num.fp)

\* repr(int) of the integer part: int() truncates toward zero.
ReprInt(num) == (IF num.neg /\ num.ip # "0" THEN "-" ELSE "") \o num.ip

FloatCell(num) ==
    IF num.cls \in {"nan", "err"} THEN Absent
    ELSE [kind |-> "float", s |-> ReprFloat(num)]

IntCell(num) == [kind |-> "int", s |-> ReprInt(num)]

Columns ==
    {"order_id", "customer_name", "email", "phone", "order_date",
     "product_name", "category", "quantity", "price", "status"}

TextColumns == <<"customer_name", "email", "product_name", "category", "status">>

(***************************************************************************)
(* The CSV file and pandas.read_csv / DataFrame.to_csv.  A file is a       *)
(* record [exists, rows]; a row of the file maps each column to the raw    *)
(* text of its field.  read_csv infers one dtype per column: int64 when    *)
(* every field that is not a missing-value marker is an integer, float64   *)
(* when every one is a number (or all are missing), object otherwise; in   *)
(* an object column every present field stays the str it was.  (Boolean    *)
(* columns are not modelled: no input holds one.)                          *)
(***************************************************************************)
NaStrings ==
    {"", "#N/A", "#N/A N/A", "#NA", "-1.#IND", "-1.#QNAN", "-NaN", "-nan",
     "1.#IND", "1.#QNAN", "<NA>", "N/A", "NA", "NULL", "NaN", "None", "n/a",
     "nan", "null"}

IsIntText(v) == ParseFloat(v).cls = "fin" /\ DotAt(v) = 0

IsFloatText(v) == ParseFloat(v).cls \in {"fin", "inf"}

InferDtype(rows, c) ==
    LET present == {rows[i][c] : i \in 1..Len(rows)} \ NaStrings
        anyNa   == \E i \in 1..Len(rows) : rows[i][c] \in NaStrings
    IN IF Len(rows) = 0 THEN "object"
       ELSE IF \A v \in present : IsIntText(v)
            THEN (IF anyNa THEN "float64" ELSE "int64")
       ELSE IF \A v \in present : IsFloatText(v) THEN "float64"
       ELSE "object"

ReadCell(v, dt) ==
    IF v \in NaStrings THEN Absent
    ELSE IF dt = "int64" THEN IntCell(ParseFloat(v))
    ELSE IF dt = "float64" THEN FloatCell(ParseFloat(v))
    ELSE Text(v)

ReadCsv(rows) ==
    [i \in 1..Len(rows) |->
        [c \in Columns |-> ReadCell(rows[i][c], InferDtype(rows, c))]]

ReadDtypes(rows) == [c \in Columns |-> InferDtype(rows, c)]

\* to_csv(index=False): NaN is written as the empty field, a str as itself,
\* a number as its repr.
ToCsv(table) ==
    [i \in 1..Len(table) |->
        [c \in Columns |-> IF IsNa(table[i][c]) THEN "" ELSE table[i][c].s]]

(***************************************************************************)
(* Table helpers                                                           *)
(***************************************************************************)
MapCol(table, c, F(_)) ==
    [i \in 1..Len(table) |-> [table[i] EXCEPT ![c] = F(table[i][c])]]

\* Series.notna().sum()
NotNaCount(table, c) == Cardinality({i \in 1..Len(table) : NotNa(table[i][c])})

\* Series.nunique(): distinct values, NaN not counted.
NUnique(table, c) ==
    Cardinality({table[i][c] : i \in 1..Len(table)} \ {Absent})

\* The dtype pandas infers for the result of Series.apply.
AppliedDtype(table, c) ==
    IF Len(table) = 0 THEN "object"
    ELSE IF \E i \in 1..Len(table) : table[i][c].kind = "text" THEN "object"
    ELSE IF \E i \in 1..Len(table) : IsNa(table[i][c]) THEN "float64"
    ELSE IF \A i \in 1..Len(table) : table[i][c].kind = "int" THEN "int64"
    ELSE "float64"

\* The .str accessor raises AttributeError on a column that is not of
\* object dtype.
StrAccessorFails(c) == dtype[c] # "object"

(***************************************************************************)
(* log_change                                                              *)
(***************************************************************************)
LogChange(log, step, description, count) ==
    Append(log, [step |-> step, description |-> description, count |-> count])

LogIfPositive(log, step, description, count) ==
    IF count > 0 THEN LogChange(log, step, description, count) ELSE log

(***************************************************************************)
(* The driver.  calls is what the driver has still to call, in order;      *)
(* raised is the exception that ended the run, or "none".  before and       *)
(* log_before record the table and the log as the latest call found them;  *)
(* the program does not read them.                                         *)
(***************************************************************************)
\* The same calls with the emails standardized before the white space is
\* cleaned.
PipelineCallsEmailsFirst ==
    <<"load_data", "remove_duplicates", "standardize_emails",
      "clean_whitespace", "clean_phone_numbers", "standardize_dates",
      "clean_prices", "clean_quantities", "standardize_categories",
      "standardize_status">>

PipelineCalls ==
    <<"load_data", "remove_duplicates", "clean_whitespace",
      "standardize_emails", "clean_phone_numbers", "standardize_dates",
      "clean_prices", "clean_quantities", "standardize_categories",
      "standardize_status">>

AtCall(name) == raised = "none" /\ calls # <<>> /\ Head(calls) = name

Returns == /\ calls' = Tail(calls)
           /\ raised' = "none"
           /\ before' = df
           /\ log_before' = cleaning_log
           /\ UNCHANGED <<csv, run, now, pads_year>>

\* An exception leaves the driver: nothing after the failing call runs.
Raises(exc) == /\ calls' = <<>>
               /\ raised' = exc
               /\ before' = df
               /\ log_before' = cleaning_log
               /\ UNCHANGED <<csv, run, now, pads_year, df, original_df, dtype, cleaning_log>>

(***************************************************************************)
(* load_data                                                               *)
(***************************************************************************)
LoadData ==
    /\ AtCall("load_data")
    /\ IF csv.exists
       THEN /\ df' = ReadCsv(csv.rows)
            /\ original_df' = ReadCsv(csv.rows)
            /\ dtype' = ReadDtypes(csv.rows)
            /\ UNCHANGED cleaning_log
            /\ calls' = Tail(calls)
            /\ raised' = "none"
            /\ before' = df
            /\ log_before' = cleaning_log
            /\ UNCHANGED <<csv, run, now, pads_year>>
       ELSE Raises("FileNotFoundError")

(***************************************************************************)
(* remove_duplicates                                                       *)
(***************************************************************************)
\* drop_duplicates() without inplace=True: the result is thrown away.
DropDuplicatesNotInPlace(table) == table

\* DataFrame.drop_duplicates(): a row goes when an earlier row equals it in
\* every column (NaN equal to NaN); the rest keep their order.
DropDuplicates(table) ==
    LET F[i \in 0..Len(table)] ==
            IF i = 0 THEN <<>>
            ELSE IF \E j \in 1..(i - 1) : table[j] = table[i]
                 THEN F[i - 1]
                 ELSE Append(F[i - 1], table[i])
    IN F[Len(table)]

RemoveDuplicates ==
    /\ AtCall("remove_duplicates")
    /\ LET initial_count == Len(df)
           deduped == DropDuplicates(df)
           duplicates_removed == initial_count - Len(deduped)
       IN /\ df' = deduped
          /\ cleaning_log' = LogIfPositive(cleaning_log, "remove_duplicates",
                                 "Duplicate rows removed", duplicates_removed)
    /\ UNCHANGED <<original_df, dtype>>
    /\ Returns

(***************************************************************************)
(* clean_whitespace                                                        *)
(***************************************************************************)
\* astype(str).str.strip(), then the two replaces.
CleanText(cell) == Text(ReplaceChar(CollapseWhitespace(Strip(Str(cell))), "\t", " "))

HasWhitespace(cell) == Strip(Str(cell)) # Str(cell)

WhitespaceCount(table, c) ==
    Cardinality({i \in 1..Len(table) : HasWhitespace(table[i][c])})

RECURSIVE SumCounts(_, _)
SumCounts(table, cols) ==
    IF cols = <<>> THEN 0
    ELSE WhitespaceCount(table, Head(cols)) + SumCounts(table, Tail(cols))

CleanWhitespaceTable(table) ==
    [i \in 1..Len(table) |->
        [c \in Columns |->
            IF \E k \in 1..Len(TextColumns) : TextColumns[k] = c
            THEN CleanText(table[i][c])
            ELSE table[i][c]]]

CleanWhitespace ==
    /\ AtCall("clean_whitespace")
    /\ df' = CleanWhitespaceTable(df)
    /\ dtype' = [c \in Columns |->
                    IF \E k \in 1..Len(TextColumns) : TextColumns[k] = c
                    THEN "object" ELSE dtype[c]]
    /\ cleaning_log' = LogChange(cleaning_log, "clean_whitespace",
                           "Whitespace cleaned in text fields",
                           SumCounts(df, TextColumns))
    /\ UNCHANGED original_df
    /\ Returns

(***************************************************************************)
(* standardize_emails                                                      *)
(***************************************************************************)
LocalChars == LetterSet \cup DigitSet \cup {".", "_", "%", "+", "-"}

DomainChars == LetterSet \cup DigitSet \cup {".", "-"}

\* Position of the last "." of s, or 0.
LastDotAt(s) ==
    IF \E i \in 1..Len(s) : Ch(s, i) = "."
    THEN CHOOSE i \in 1..Len(s) :
             Ch(s, i) = "." /\ \A j \in (i + 1)..Len(s) : Ch(s, j) # "."
    ELSE 0

\* Position of the first "@" of s, or 0.
AtSignAt(s) ==
    IF \E i \in 1..Len(s) : Ch(s, i) = "@"
    THEN CHOOSE i \in 1..Len(s) : Ch(s, i) = "@" /\ \A j \in 1..(i - 1) : Ch(s, j) # "@"
    ELSE 0

\* re.match(r'^[a-zA-Z0-9._%+-]+@[a-zA-Z0-9.-]+\.[a-zA-Z]{2,}$', s).  The
\* top-level label holds no dot, so the dot before it is the last one; $
\* also matches just before one final newline.
EmailMatches(s) ==
    LET core   == IF s # "" /\ Last(s) = "\n" THEN Front(s) ELSE s
        at     == AtSignAt(core)
        local  == SubSeq(core, 1, at - 1)
        rest   == SubSeq(core, at + 1, Len(core))
        dot    == LastDotAt(rest)
        domain == SubSeq(rest, 1, dot - 1)
        tld    == SubSeq(rest, dot + 1, Len(rest))
    IN /\ at > 0
       /\ local # "" /\ AllIn(local, LocalChars)
       /\ dot > 0
       /\ domain # "" /\ AllIn(domain, DomainChars)
       /\ Len(tld) >= 2 /\ AllIn(tld, LetterSet)

\* Series.str.lower(): NaN stays NaN.
LowerCell(cell) == IF cell.kind = "text" THEN Text(Lower(cell.s)) ELSE Absent

\* str.match(pattern, na=False)
ValidEmail(cell) == cell.kind = "text" /\ EmailMatches(cell.s)

InvalidEmail(cell) == ~ValidEmail(cell) /\ NotNa(cell)

EmailCell(cell) ==
    LET low == LowerCell(cell) IN IF InvalidEmail(low) THEN Absent ELSE low

\* Rows with an invalid email dropped instead of nulled.
DropInvalidEmailRows(table) ==
    SelectSeq(MapCol(table, "email", LowerCell),
              LAMBDA r : ~InvalidEmail(r["email"]))

\* Invalid emails become NaN in place: the rows stay.
StandardizeEmailsTable(table) == MapCol(table, "email", EmailCell)

StandardizeEmails ==
    /\ AtCall("standardize_emails")
    /\ IF StrAccessorFails("email")
       THEN Raises("AttributeError")
       ELSE /\ LET lowered == MapCol(df, "email", LowerCell)
                   invalid_count ==
                       Cardinality({i \in 1..Len(lowered) :
                                       InvalidEmail(lowered[i]["email"])})
               IN /\ df' = StandardizeEmailsTable(df)
                  /\ cleaning_log' = LogIfPositive(cleaning_log, "standardize_emails",
                                         "Invalid emails removed", invalid_count)
            /\ UNCHANGED <<original_df, dtype>>
            /\ Returns

(***************************************************************************)
(* clean_phone_numbers                                                     *)
(***************************************************************************)
FormatPhone(phone) ==
    IF IsNa(phone) THEN Absent
    ELSE LET all    == DigitsOnly(Str(phone))
             digits == IF Len(all) = 11 /\ StartsWith(all, "1") THEN Tail(all) ELSE all
         IN IF Len(digits) = 10
            THEN Text(SubSeq(digits, 1, 3) \o "-" \o SubSeq(digits, 4, 6)
                      \o "-" \o SubSeq(digits, 7, 10))
            ELSE Absent

CleanPhoneNumbers ==
    /\ AtCall("clean_phone_numbers")
    /\ LET valid_before == NotNaCount(df, "phone")
           applied == MapCol(df, "phone", FormatPhone)
           valid_after == NotNaCount(applied, "phone")
           invalid_count == valid_before - valid_after
       IN /\ df' = applied
          /\ dtype' = [dtype EXCEPT !["phone"] = AppliedDtype(applied, "phone")]
          /\ cleaning_log' = LogIfPositive(cleaning_log, "clean_phone_numbers",
                                 "Invalid phone numbers removed", invalid_count)
    /\ UNCHANGED original_df
    /\ Returns

(***************************************************************************)
(* standardize_dates.  A date is <<year, month, day>>.  strptime compiles  *)
(* a format into a regular expression (matched ignoring case) in which %m  *)
(* is 1[0-2]|0[1-9]|[1-9], %d is 3[01]|[12]\d|0[1-9]|[1-9]| [1-9], %Y is   *)
(* four digits and white space in the format is \s+; the whole string has  *)
(* to be consumed, and the fields have to name a day of the calendar.      *)
(***************************************************************************)
RECURSIVE IntOf(_)
IntOf(d) == IF d = "" THEN 0 ELSE 10 * IntOf(Front(d)) + DigitVal(Last(d))

RECURSIVE IntText(_)
IntText(n) == IF n < 10 THEN DigitOf(n) ELSE IntText(n \div 10) \o DigitOf(n % 10)

RECURSIVE ZeroPad(_, _)
ZeroPad(d, width) == IF Len(d) >= width THEN d ELSE ZeroPad("0" \o d, width)

IsDigits(t, lo, hi) == Len(t) >= lo /\ Len(t) <= hi /\ AllIn(t, DigitSet)

MonthField(t) == IF IsDigits(t, 1, 2) /\ IntOf(t) \in 1..12 THEN IntOf(t) ELSE 0

DayDigits(t) == IF IsDigits(t, 1, 2) /\ IntOf(t) \in 1..31 THEN IntOf(t) ELSE 0

DayField(t) ==
    IF Len(t) = 2 /\ Head(t) = " " /\ Tail(t) \in DigitSet \ {"0"}
    THEN IntOf(Tail(t))
    ELSE DayDigits(t)

YearField(t) == IF IsDigits(t, 4, 4) THEN IntOf(t) ELSE 0

MonthNames ==
    <<"january", "february", "march", "april", "may", "june", "july",
      "august", "september", "october", "november", "december">>

FullMonth(t) ==
    IF \E m \in 1..12 : MonthNames[m] = Lower(t)
    THEN CHOOSE m \in 1..12 : MonthNames[m] = Lower(t)
    ELSE 0

AbbrMonth(t) ==
    IF \E m \in 1..12 : SubSeq(MonthNames[m], 1, 3) = Lower(t)
    THEN CHOOSE m \in 1..12 : SubSeq(MonthNames[m], 1, 3) = Lower(t)
    ELSE 0

FirstIn(s, set) ==
    IF \E i \in 1..Len(s) : Ch(s, i) \in set
    THEN CHOOSE i \in 1..Len(s) :
             Ch(s, i) \in set /\ \A j \in 1..(i - 1) : Ch(s, j) \notin set
    ELSE 0

\* The pieces of s between occurrences of the character c.
RECURSIVE SplitAt(_, _)
SplitAt(s, c) ==
    LET i == FirstIn(s, {c})
    IN IF i = 0 THEN <<s>>
       ELSE <<SubSeq(s, 1, i - 1)>> \o SplitAt(SubSeq(s, i + 1, Len(s)), c)

\* The pieces of s (which has no white space at its ends) between runs of
\* white space.
RECURSIVE SplitWhitespace(_)
SplitWhitespace(s) ==
    LET i == FirstIn(s, WhitespaceSet)
    IN IF i = 0 THEN <<s>>
       ELSE <<SubSeq(s, 1, i - 1)>>
            \o SplitWhitespace(LStrip(SubSeq(s, i + 1, Len(s))))

IsLeap(y) == y % 4 = 0 /\ (y % 100 # 0 \/ y % 400 = 0)

DaysIn(y, m) ==
    IF m = 2 THEN (IF IsLeap(y) THEN 29 ELSE 28)
    ELSE IF m \in {4, 6, 9, 11} THEN 30 ELSE 31

NoDate == <<0, 0, 0>>

\* datetime(y, m, d), or NoDate for a ValueError.
MakeDate(y, m, d) ==
    IF y >= 1 /\ m >= 1 /\ d >= 1 /\ d <= DaysIn(y, m) THEN <<y, m, d>> ELSE NoDate

DateFormats == <<"%m/%d/%Y", "%d-%m-%Y", "%Y-%m-%d", "%b %d, %Y", "%d %B %Y">>

\* datetime.strptime(s, DateFormats[k]), or NoDate for a ValueError.
Strptime(s, k) ==
    LET slash == SplitAt(s, "/")
        dash  == SplitAt(s, "-")
        words == SplitWhitespace(s)
    IN IF k = 1 THEN
           (IF Len(slash) = 3
            THEN MakeDate(YearField(slash[3]), MonthField(slash[1]), DayField(slash[2]))
            ELSE NoDate)
       ELSE IF k = 2 THEN
           (IF Len(dash) = 3
            THEN MakeDate(YearField(dash[3]), MonthField(dash[2]), DayField(dash[1]))
            ELSE NoDate)
       ELSE IF k = 3 THEN
           (IF Len(dash) = 3
            THEN MakeDate(YearField(dash[1]), MonthField(dash[2]), DayField(dash[3]))
            ELSE NoDate)
       ELSE IF k = 4 THEN
           (IF Len(words) = 3 /\ words[2] # "" /\ Last(words[2]) = ","
            THEN MakeDate(YearField(words[3]), AbbrMonth(words[1]),
                          DayDigits(Front(words[2])))
            ELSE NoDate)
       ELSE
           (IF Len(words) = 3
            THEN MakeDate(YearField(words[3]), FullMonth(words[2]), DayDigits(words[1]))
            ELSE NoDate)

\* parsed_date > datetime.now(): the parsed date is a midnight.
After(d, today) ==
    \/ d[1] > today[1]
    \/ d[1] = today[1] /\ d[2] > today[2]
    \/ d[1] = today[1] /\ d[2] = today[2] /\ d[3] > today[3]

\* strftime('%Y-%m-%d').  %Y is the C library's: it fills a year below 1000
\* with zeros on some builds (pads) and writes it as it is on others (glibc
\* under CPython before 3.13).
Strftime(d, pads) ==
    (IF pads THEN ZeroPad(IntText(d[1]), 4) ELSE IntText(d[1]))
        \o "-" \o ZeroPad(IntText(d[2]), 2) \o "-" \o ZeroPad(IntText(d[3]), 2)

\* The first format, in order, that parses the text (0: none does).
FirstFormat(s) ==
    IF \E k \in 1..Len(DateFormats) : Strptime(s, k) # NoDate
    THEN CHOOSE k \in 1..Len(DateFormats) :
             /\ Strptime(s, k) # NoDate
             /\ \A j \in 1..(k - 1) : Strptime(s, j) = NoDate
    ELSE 0

ParseDate(date_str, today, pads) ==
    IF IsNa(date_str) THEN Absent
    ELSE LET text == Strip(Str(date_str))
             k    == FirstFormat(text)
         IN IF k = 0 THEN Absent
            ELSE IF After(Strptime(text, k), today) THEN Absent
            ELSE Text(Strftime(Strptime(text, k), pads))

StandardizeDates ==
    /\ AtCall("standardize_dates")
    /\ LET ParseToday(cell) == ParseDate(cell, now, pads_year)
           valid_before == NotNaCount(df, "order_date")
           applied == MapCol(df, "order_date", ParseToday)
           valid_after == NotNaCount(applied, "order_date")
           invalid_count == valid_before - valid_after
       IN /\ df' = applied
          /\ dtype' = [dtype EXCEPT !["order_date"] = AppliedDtype(applied, "order_date")]
          /\ cleaning_log' = LogIfPositive(cleaning_log, "standardize_dates",
                                 "Invalid dates removed", invalid_count)
    /\ UNCHANGED original_df
    /\ Returns

(***************************************************************************)
(* clean_prices                                                            *)
(***************************************************************************)
RECURSIVE RemoveChar(_, _)
RemoveChar(s, c) ==
    IF s = "" THEN ""
    ELSE (IF Head(s) = c THEN "" ELSE Head(s)) \o RemoveChar(Tail(s), c)

ParsePrice(price) ==
    IF IsNa(price) THEN Absent
    ELSE LET price_str   == RemoveChar(RemoveChar(Strip(Str(price)), "$"), ",")
             price_float == ParseFloat(price_str)
         IN IF price_float.cls = "err" THEN Absent
            ELSE IF LeqZero(price_float) THEN Absent
            ELSE FloatCell(Round2(price_float))

CleanPrices ==
    /\ AtCall("clean_prices")
    /\ LET valid_before == NotNaCount(df, "price")
           applied == MapCol(df, "price", ParsePrice)
           valid_after == NotNaCount(applied, "price")
           invalid_count == valid_before - valid_after
       IN /\ df' = applied
          /\ dtype' = [dtype EXCEPT !["price"] = AppliedDtype(applied, "price")]
          /\ cleaning_log' = LogIfPositive(cleaning_log, "clean_prices",
                                 "Invalid prices removed", invalid_count)
    /\ UNCHANGED original_df
    /\ Returns

(***************************************************************************)
(* clean_quantities                                                        *)
(***************************************************************************)
\* int(float(...)) raises OverflowError on an infinity, and the handler
\* catches ValueError and TypeError only.
QuantityOverflows(qty) ==
    NotNa(qty) /\ ParseFloat(Strip(Str(qty))).cls = "inf"

\* Zero is let through: only a negative quantity is made absent.
ParseQuantityKeepsZero(qty) ==
    IF IsNa(qty) THEN Absent
    ELSE LET qty_float == ParseFloat(Strip(Str(qty)))
         IN IF qty_float.cls \in {"err", "nan"} THEN Absent
            ELSE IF qty_float.neg THEN Absent
            ELSE IntCell(qty_float)

ParseQuantity(qty) ==
    IF IsNa(qty) THEN Absent
    ELSE LET qty_float == ParseFloat(Strip(Str(qty)))
         IN IF qty_float.cls \in {"err", "nan"} THEN Absent
            ELSE IF qty_float.neg \/ qty_float.ip = "0" THEN Absent
            ELSE IntCell(qty_float)

\* A column of integers that also holds NaN is a float64 column.
AsColumn(table, c) ==
    IF AppliedDtype(table, c) = "float64"
    THEN [i \in 1..Len(table) |->
             [table[i] EXCEPT ![c] =
                 IF table[i][c].kind = "int"
                 THEN [kind |-> "float", s |-> table[i][c].s \o ".0"]
                 ELSE table[i][c]]]
    ELSE table

CleanQuantities ==
    /\ AtCall("clean_quantities")
    /\ IF \E i \in 1..Len(df) : QuantityOverflows(df[i]["quantity"])
       THEN Raises("OverflowError")
       ELSE /\ LET valid_before == NotNaCount(df, "quantity")
                   applied == AsColumn(MapCol(df, "quantity", ParseQuantity), "quantity")
                   valid_after == NotNaCount(applied, "quantity")
                   invalid_count == valid_before - valid_after
               IN /\ df' = applied
                  /\ dtype' = [dtype EXCEPT
                                 !["quantity"] = AppliedDtype(applied, "quantity")]
                  /\ cleaning_log' = LogIfPositive(cleaning_log, "clean_quantities",
                                         "Invalid quantities removed", invalid_count)
            /\ UNCHANGED original_df
            /\ Returns

(***************************************************************************)
(* standardize_categories and standardize_status                           *)
(***************************************************************************)
category_mapping ==
    ("electronics" :> "Electronics") @@ ("ELECTRONICS" :> "Electronics") @@
    ("elec" :> "Electronics") @@ ("Elec" :> "Electronics") @@
    ("clothing" :> "Clothing") @@ ("CLOTHING" :> "Clothing") @@
    ("clot" :> "Clothing") @@ ("Clot" :> "Clothing") @@
    ("home & garden" :> "Home & Garden") @@ ("HOME & GARDEN" :> "Home & Garden") @@
    ("home and garden" :> "Home & Garden") @@ ("Home and Garden" :> "Home & Garden") @@
    ("home" :> "Home & Garden") @@ ("Home" :> "Home & Garden") @@
    ("books" :> "Books") @@ ("BOOKS" :> "Books") @@
    ("book" :> "Books") @@ ("Book" :> "Books")

status_mapping ==
    ("pending" :> "Pending") @@ ("PENDING" :> "Pending") @@
    ("pnding" :> "Pending") @@ ("Pnding" :> "Pending") @@
    ("p" :> "Pending") @@ ("P" :> "Pending") @@
    ("shipped" :> "Shipped") @@ ("SHIPPED" :> "Shipped") @@
    ("shippd" :> "Shipped") @@ ("Shippd" :> "Shipped") @@
    ("ship" :> "Shipped") @@ ("Ship" :> "Shipped") @@
    ("delivered" :> "Delivered") @@ ("DELIVERED" :> "Delivered") @@
    ("deliverd" :> "Delivered") @@ ("Deliverd" :> "Delivered") @@
    ("complete" :> "Delivered") @@ ("Complete" :> "Delivered") @@
    ("COMPLETE" :> "Delivered") @@
    ("cancelled" :> "Cancelled") @@ ("CANCELLED" :> "Cancelled") @@
    ("canceled" :> "Cancelled") @@ ("Canceled" :> "Cancelled") @@
    ("cnclld" :> "Cancelled") @@ ("CNCLLD" :> "Cancelled")

\* Series.replace(mapping): a value equal to a key becomes the key's value.
Replace(cell, mapping) ==
    IF cell.kind = "text" /\ cell.s \in DOMAIN mapping
    THEN Text(mapping[cell.s])
    ELSE cell

\* Series.str.title(): NaN stays NaN.
TitleCell(cell) == IF cell.kind = "text" THEN Text(Title(cell.s)) ELSE Absent

\* Lookup after folding the case to lower.
CategoryCellFolded(cell) ==
    TitleCell(Replace(IF cell.kind = "text" THEN Text(Lower(cell.s)) ELSE cell,
                      category_mapping))

CategoryCell(cell) == TitleCell(Replace(cell, category_mapping))

\* The lookup followed by the capitalization standardize_categories applies.
StatusCellTitled(cell) == TitleCell(Replace(cell, status_mapping))

StatusCell(cell) == Replace(cell, status_mapping)

StandardizeCategories ==
    /\ AtCall("standardize_categories")
    /\ IF StrAccessorFails("category")
       THEN Raises("AttributeError")
       ELSE /\ LET unique_before == NUnique(df, "category")
                   applied == MapCol(df, "category", CategoryCell)
                   unique_after == NUnique(applied, "category")
                   variations_removed == unique_before - unique_after
               IN /\ df' = applied
                  /\ cleaning_log' = LogIfPositive(cleaning_log, "standardize_categories",
                                         "Category variations consolidated",
                                         variations_removed)
            /\ UNCHANGED <<original_df, dtype>>
            /\ Returns

StandardizeStatus ==
    /\ AtCall("standardize_status")
    /\ LET unique_before == NUnique(df, "status")
           applied == MapCol(df, "status", StatusCell)
           unique_after == NUnique(applied, "status")
           variations_removed == unique_before - unique_after
       IN /\ df' = applied
          /\ cleaning_log' = LogIfPositive(cleaning_log, "standardize_status",
                                 "Status variations consolidated", variations_removed)
    /\ UNCHANGED <<original_df, dtype>>
    /\ Returns

(***************************************************************************)
(* A second run: the cleaned table is saved (save_cleaned_data) and a new  *)
(* DataCleaner is run over the saved file, at the same or a later time.    *)
(***************************************************************************)
NextDay(d) ==
    IF d[3] < DaysIn(d[1], d[2]) THEN <<d[1], d[2], d[3] + 1>>
    ELSE IF d[2] < 12 THEN <<d[1], d[2] + 1, 1>>
    ELSE <<d[1] + 1, 1, 1>>

Rerun ==
    /\ raised = "none" /\ calls = <<>> /\ run = 1
    /\ csv' = [exists |-> TRUE, rows |-> ToCsv(df)]
    /\ df' = <<>>
    /\ original_df' = <<>>
    /\ before' = <<>>
    /\ log_before' = <<>>
    /\ dtype' = [c \in Columns |-> "object"]
    /\ cleaning_log' = <<>>
    /\ calls' = PipelineCalls
    /\ raised' = "none"
    /\ run' = run + 1
    /\ now' \in {now, NextDay(now)}
    /\ UNCHANGED pads_year

(***************************************************************************)
(* Specifications                                                          *)
(***************************************************************************)
Step ==
    \/ LoadData
    \/ RemoveDuplicates
    \/ CleanWhitespace
    \/ StandardizeEmails
    \/ CleanPhoneNumbers
    \/ StandardizeDates
    \/ CleanPrices
    \/ CleanQuantities
    \/ StandardizeCategories
    \/ StandardizeStatus

Next == Step \/ Rerun

Today == <<2024, 6, 15>>

\* The state after DataCleaner(input_path): nothing loaded, an empty log.
InitWith(files, scripts) ==
    /\ csv \in files
    /\ calls \in scripts
    /\ df = <<>>
    /\ original_df = <<>>
    /\ before = <<>>
    /\ log_before = <<>>
    /\ dtype = [c \in Columns |-> "object"]
    /\ cleaning_log = <<>>
    /\ raised = "none"
    /\ run = 1
    /\ now = Today
    /\ pads_year \in BOOLEAN

(***************************************************************************)
(* Input files.  Each order below is one line of a CSV file, written with  *)
(* the kinds of defect scripts/generate_messy_data.py injects and a few    *)
(* more; a file holds up to MaxRows of them, repeats included.             *)
(***************************************************************************)
MaxRows == 2

Order(order_id, customer_name, email, phone, order_date, product_name, category, quantity, price, status) ==
    [c \in Columns |->
        CASE c = "order_id" -> order_id
          [] c = "customer_name" -> customer_name
          [] c = "email" -> email
          [] c = "phone" -> phone
          [] c = "order_date" -> order_date
          [] c = "product_name" -> product_name
          [] c = "category" -> category
          [] c = "quantity" -> quantity
          [] c = "price" -> price
          [] c = "status" -> status]

Orders ==
    { Order("ORD1001", "John Smith", "john.smith@example.com", "555-123-4567",
            "2024-01-15", "Jeans", "Clothing", "2", "19.99", "Shipped"),
      Order("#1002", "  Jane\tDoe  ", "JOHN.DOE@EXAMPLE.COM  ", "(555) 123-4567",
            "15 January 2024", "MacBook  Pro", "elec", "3", "$1,299.99", "pending"),
      Order("ORD1003", "", "", "", "", "", "", "", "", ""),
      Order("1004", "bob", "john.doe", "12345", "01/15/2034", "Jean",
            "outdoor gear", "-2", "abc", "unknown"),
      Order("ORD1005", "Ann Lee", "ann@x.org", "+1 555 123 4567", "Jan 5, 2023",
            "AirPods", "ELEC", "0", "-5", "P"),
      Order("ORD1006", "Al", "al@y.io", "5551234567", "01/15/2024", "Jeans",
            "Home", "10", "0.001", "Ship"),
      Order("ORD1007", "Cy", "cy@z.net", "555.123.4567", "15-01-2024", "Jeans",
            "Books", "inf", "5", "Delivered"),
      Order("ORD1008", " amy ", "Amy@Site.Com", "1 (555) 123-4567", "2024-06-16",
            "Coffee Maker", "HOME AND GARDEN", "1.9", "inf", "CNCLLD"),
      Order("ORD1009", "Di", "x@y", "25551234567", "02/30/2024", "Jeans",
            "Book", "0.5", ".004", "Complete"),
      Order("ORD1010", "Ed", "", "", "06/15/2024", "Jeans",
            "Clothing", "5", "20", "Shipped"),
      Order("ORD1011", "Flo", "flo@q.co", "555 123 4567", "0999-01-15", "Jeans",
            "Clothing", "7", "12.5", "Shipped") }

RECURSIVE Tables(_, _)
Tables(rows, n) ==
    IF n = 0 THEN {<<>>}
    ELSE LET shorter == Tables(rows, n - 1)
         IN shorter \cup {Append(t, r) : t \in {u \in shorter : Len(u) = n - 1},
                                         r \in rows}

File(rows) == [exists |-> TRUE, rows |-> rows]

MissingFile == [exists |-> FALSE, rows |-> <<>>]

\* Two of the orders, repeated in longer files: duplicates before, between
\* and after the rows they repeat.
RepeatedOrders ==
    {o \in Orders : o["order_id"] \in {"ORD1001", "#1002"}}

Files ==
    {File(t) : t \in Tables(Orders, MaxRows)}
        \cup {File(t) : t \in Tables(RepeatedOrders, MaxRows + 2)}
        \cup {MissingFile}

Init == InitWith(Files, {PipelineCalls})

Spec == Init /\ [][Next]_vars

\* One step called twice in a row on a freshly loaded table.
TwiceScripts == {<<"load_data", PipelineCalls[k], PipelineCalls[k]>> :
                    k \in 2..Len(PipelineCalls)}

InitTwice == InitWith(Files, TwiceScripts)

SpecTwice == InitTwice /\ [][Step]_vars

(***************************************************************************)
(* Files that vary one field: each row is the same well-formed order but   *)
(* for one field, which takes every text of a list of its own; a file      *)
(* holds up to MaxFieldRows rows that vary the same field.                 *)
(***************************************************************************)
MaxFieldRows == 2

BaseOrder ==
    Order("ORD2001", "John Smith", "john.smith@example.com", "555-123-4567",
          "2024-01-15", "Laptop", "Electronics", "2", "29.99", "Delivered")

CategoryTexts ==
    {"elec", "ELEC", "Electronics", "outdoor gear", "HOME AND GARDEN", "home",
     " Book ", ""}

StatusTexts ==
    {"pending", "P", "Shipped", "shippd", "COMPLETE", "unknown", " DELIVERED",
     ""}

QuantityTexts ==
    {"7", "0", "-2", "1.9", "0.5", "-0.5", "abc", "", "2.0", "10"}

EmailTexts ==
    {"JOHN.DOE@EXAMPLE.COM  ", " Amy@Site.Com", "john.doe", "a@b.c", "",
     "al+x@y-z.io"}

FieldTexts ==
    ("category" :> CategoryTexts) @@ ("status" :> StatusTexts) @@
    ("quantity" :> QuantityTexts) @@ ("email" :> EmailTexts)

FieldOrders(c) == {[BaseOrder EXCEPT ![c] = v] : v \in FieldTexts[c]}

FieldFiles ==
    UNION {{File(t) : t \in Tables(FieldOrders(c), MaxFieldRows)} :
              c \in DOMAIN FieldTexts}

InitFields == InitWith(FieldFiles, {PipelineCalls})

SpecFields == InitFields /\ [][Step]_vars

(***************************************************************************)
(* Vocabulary of the properties                                            *)
(***************************************************************************)
\* The pipeline's latest call was `name`, and it returned.
AfterCall(name) ==
    /\ raised = "none"
    /\ \E k \in 1..Len(PipelineCalls) :
           PipelineCalls[k] = name /\ Len(calls) = Len(PipelineCalls) - k

\* Every call of the run returned.
PipelineDone == raised = "none" /\ calls = <<>>

\* Deduplication has run: from here on row i of df is row i of Deduped.
RowsSettled == raised = "none" /\ Len(calls) <= Len(PipelineCalls) - 2

\* The loaded table less its duplicate rows: the rows the later steps see.
Deduped == DropDuplicates(original_df)

\* The count of the entry the latest call appended, 0 when it appended none.
Appended == SubSeq(cleaning_log, Len(log_before) + 1, Len(cleaning_log))

LoggedBy(step) == {k \in 1..Len(cleaning_log) : cleaning_log[k].step = step}

LoggedCount(step) ==
    IF LoggedBy(step) = {} THEN 0
    ELSE cleaning_log[CHOOSE k \in LoggedBy(step) : TRUE].count

(***************************************************************************)
(* C1: running the full pipeline over the output of a full pipeline run    *)
(* gives back the table it was given (absent fields still absent), and     *)
(* every entry this second run logs has count zero.                        *)
(***************************************************************************)
C1_SecondRunChangesNothing ==
    (run = 2 /\ PipelineDone) =>
        /\ df = original_df
        /\ \A k \in 1..Len(cleaning_log) : cleaning_log[k].count = 0

(***************************************************************************)
(* C2: in a full run a row whose input email is absent is not counted as   *)
(* an invalid email and its email is absent in the output; the count       *)
(* logged as standardize_emails is the number of rows whose input email is *)
(* present and fails the pattern once trimmed and lower-cased.             *)
(***************************************************************************)
PresentInvalidEmails ==
    {i \in 1..Len(Deduped) :
        /\ NotNa(Deduped[i]["email"])
        /\ ~EmailMatches(Lower(Strip(Str(Deduped[i]["email"]))))}

C2_AbsentEmailNeverCounted ==
    /\ AfterCall("standardize_emails") =>
           LoggedCount("standardize_emails") = Cardinality(PresentInvalidEmails)
    /\ PipelineDone =>
           \A i \in 1..Len(df) :
               IsNa(Deduped[i]["email"]) => IsNa(df[i]["email"])

(***************************************************************************)
(* C3: a field that is absent in the input is absent in the output, in     *)
(* every column and after every step.                                      *)
(***************************************************************************)
C3_AbsentStaysAbsent ==
    RowsSettled =>
        \A i \in 1..Len(df) : \A c \in Columns :
            IsNa(Deduped[i][c]) => IsNa(df[i][c])

(***************************************************************************)
(* C4: no entry of the log has count zero, and each of the seven counting  *)
(* steps appends an entry exactly when the number of changes it found is   *)
(* greater than zero.                                                      *)
(***************************************************************************)
NewlyAbsent(c) == NotNaCount(before, c) - NotNaCount(df, c)

ChangesFound(step) ==
    CASE step = "remove_duplicates" -> Len(before) - Len(df)
      [] step = "clean_whitespace" -> SumCounts(before, TextColumns)
      [] step = "standardize_emails" ->
            Cardinality({i \in 1..Len(before) :
                            NotNa(before[i]["email"]) /\ IsNa(df[i]["email"])})
      [] step = "clean_phone_numbers" -> NewlyAbsent("phone")
      [] step = "standardize_dates" -> NewlyAbsent("order_date")
      [] step = "clean_prices" -> NewlyAbsent("price")
      [] step = "clean_quantities" -> NewlyAbsent("quantity")

CountingSteps ==
    {"remove_duplicates", "clean_whitespace", "standardize_emails",
     "clean_phone_numbers", "standardize_dates", "clean_prices",
     "clean_quantities"}

C4_LogHoldsOnlyChanges ==
    /\ \A k \in 1..Len(cleaning_log) : cleaning_log[k].count > 0
    /\ \A step \in CountingSteps :
           AfterCall(step) => (Len(Appended) = 1 <=> ChangesFound(step) > 0)

(***************************************************************************)
(* C5: after clean_prices every price is absent or a number greater than   *)
(* zero with at most two decimal places; an input that is <= 0 or does not *)
(* parse is absent; no input gives a price of zero.                        *)
(***************************************************************************)
PositiveTwoPlaces(cell) ==
    LET x == ParseFloat(cell.s)
    IN /\ cell.kind = "float"
       /\ \/ x.cls = "inf" /\ ~x.neg
          \/ x.cls = "fin" /\ ~x.neg /\ ~IsZero(x) /\ Len(x.fp) <= 2

\* The number a price field denotes, currency sign and separators aside.
PriceValue(cell) == ParseFloat(RemoveChar(RemoveChar(Strip(Str(cell)), "$"), ","))

C5_PriceInvariant ==
    AfterCall("clean_prices") =>
        \A i \in 1..Len(df) :
            /\ NotNa(df[i]["price"]) => PositiveTwoPlaces(df[i]["price"])
            /\ ( /\ NotNa(before[i]["price"])
                 /\ \/ PriceValue(before[i]["price"]).cls = "err"
                    \/ LeqZero(PriceValue(before[i]["price"])) )
               => IsNa(df[i]["price"])

(***************************************************************************)
(* C6: whatever the cells of the loaded table hold, no cleaning step       *)
(* raises an exception.                                                    *)
(***************************************************************************)
C6_StepsNeverRaise == raised \in {"none", "FileNotFoundError"}

(***************************************************************************)
(* C7: a step applied to its own output leaves the table as it is and logs *)
(* no entry with a non-zero count.                                         *)
(***************************************************************************)
C7_StepIsIdempotent ==
    (raised = "none" /\ calls = <<>>) =>
        /\ df = before
        /\ \A k \in 1..Len(Appended) : Appended[k].count = 0

(***************************************************************************)
(* C8: after remove_duplicates no two rows are equal in every column; the  *)
(* rows kept are the first occurrences, in their order; the entry logged   *)
(* counts the rows removed and is there only when some were.               *)
(***************************************************************************)
FirstOccurrences ==
    {i \in 1..Len(before) : \A j \in 1..(i - 1) : before[j] # before[i]}

\* The k-th first occurrence, in the order of the table.
NthFirst(k) ==
    CHOOSE i \in FirstOccurrences :
        Cardinality({j \in FirstOccurrences : j <= i}) = k

C8_Deduplication ==
    AfterCall("remove_duplicates") =>
        /\ \A i, j \in 1..Len(df) : i # j => df[i] # df[j]
        /\ Len(df) = Cardinality(FirstOccurrences)
        /\ \A k \in 1..Len(df) : df[k] = before[NthFirst(k)]
        /\ IF Len(before) > Len(df)
           THEN /\ Len(Appended) = 1
                /\ Appended[1].step = "remove_duplicates"
                /\ Appended[1].count = Len(before) - Len(df)
           ELSE Appended = <<>>

\* A duplicate that follows a different row has been removed.
C8_Witness ==
    /\ AfterCall("remove_duplicates")
    /\ Len(before) >= 3
    /\ Len(df) = 2
    /\ before[1] # before[2]
    /\ LoggedCount("remove_duplicates") = Len(before) - 2

(***************************************************************************)
(* C9: the table never has more rows than were loaded; none of the eight   *)
(* steps after remove_duplicates changes the number of rows; every row     *)
(* keeps the ten columns.                                                  *)
(***************************************************************************)
AfterLaterStep == raised = "none" /\ Len(calls) <= Len(PipelineCalls) - 3

C9_RowCountMonotone ==
    /\ Len(df) <= Len(original_df)
    /\ AfterLaterStep => Len(df) = Len(before)
    /\ \A i \in 1..Len(df) : DOMAIN df[i] = Columns

\* A run that lost a duplicate row and nulled an invalid email has finished.
C9_Witness ==
    /\ PipelineDone
    /\ Len(df) > 0
    /\ Len(df) < Len(original_df)
    /\ LoggedCount("standardize_emails") > 0

(***************************************************************************)
(* C10: for a non-absent input phone with decimal digits d (a leading 1    *)
(* dropped when there are eleven), the result is DDD-DDD-DDDD built from d *)
(* when d has ten digits and absent otherwise; every phone left is of the  *)
(* form DDD-DDD-DDDD; the count logged as clean_phone_numbers is the       *)
(* number of rows whose phone was present and is absent.                   *)
(***************************************************************************)
\* The decimal digits of a phone field.  A field read as a number has the
\* digits of that number: 5551234567 read into a float64 column is still
\* the ten digits 5551234567.
PhoneDigits(cell) ==
    IF cell.kind = "float" THEN DigitsOnly(ReprInt(ParseFloat(cell.s)))
    ELSE DigitsOnly(cell.s)

NationalDigits(d) == IF Len(d) = 11 /\ Head(d) = "1" THEN Tail(d) ELSE d

Dashed(d) == SubSeq(d, 1, 3) \o "-" \o SubSeq(d, 4, 6) \o "-" \o SubSeq(d, 7, 10)

IsDashedPhone(s) ==
    /\ Len(s) = 12
    /\ \A k \in 1..12 : IF k \in {4, 8} THEN Ch(s, k) = "-" ELSE Ch(s, k) \in DigitSet

PhoneAsSpecified(in, out) ==
    LET d == NationalDigits(PhoneDigits(in))
    IN IF NotNa(in) /\ Len(d) = 10 THEN out = Text(Dashed(d)) ELSE IsNa(out)

PhoneCountAsSpecified ==
    LoggedCount("clean_phone_numbers") =
        Cardinality({i \in 1..Len(df) :
                        NotNa(before[i]["phone"]) /\ IsNa(df[i]["phone"])})

C10_PhoneStandardization ==
    AfterCall("clean_phone_numbers") =>
        /\ \A i \in 1..Len(df) : PhoneAsSpecified(before[i]["phone"], df[i]["phone"])
        /\ \A i \in 1..Len(df) :
               NotNa(df[i]["phone"]) => IsDashedPhone(df[i]["phone"].s)
        /\ PhoneCountAsSpecified

\* What does hold: the same statement for the phones that are not read into
\* a float64 column.
PhoneStandardizationOutsideFloatColumns ==
    AfterCall("clean_phone_numbers") =>
        /\ \A i \in 1..Len(df) :
               before[i]["phone"].kind # "float" =>
                   PhoneAsSpecified(before[i]["phone"], df[i]["phone"])
        /\ \A i \in 1..Len(df) :
               NotNa(df[i]["phone"]) => IsDashedPhone(df[i]["phone"].s)
        /\ PhoneCountAsSpecified

(***************************************************************************)
(* C11: for a non-absent input date the first of the five formats that     *)
(* parses decides: a date later than the processing time gives absent,     *)
(* any other that date as YYYY-MM-DD; when no format parses the result is  *)
(* absent.  Every date left is of the form YYYY-MM-DD and not later than   *)
(* the processing time, and the count logged as standardize_dates is the   *)
(* number of rows whose date was present and is absent.                    *)
(***************************************************************************)
\* The date d written as YYYY-MM-DD.
IsoDate(d) ==
    ZeroPad(IntText(d[1]), 4) \o "-" \o ZeroPad(IntText(d[2]), 2)
        \o "-" \o ZeroPad(IntText(d[3]), 2)

\* s is four digits, two digits and two digits joined by dashes.
IsIsoText(s) ==
    /\ Len(s) = 10
    /\ \A k \in 1..10 : IF k \in {5, 8} THEN Ch(s, k) = "-" ELSE Ch(s, k) \in DigitSet

\* The calendar date an ISO text names (NoDate when it names none).
DateOfIso(s) ==
    MakeDate(IntOf(SubSeq(s, 1, 4)), IntOf(SubSeq(s, 6, 7)), IntOf(SubSeq(s, 9, 10)))

DateAsSpecified(in, out) ==
    LET text == Strip(Str(in))
        parsing == {k \in 1..Len(DateFormats) : Strptime(text, k) # NoDate}
        first == CHOOSE k \in parsing : \A j \in parsing : k <= j
    IN IF parsing = {} THEN IsNa(out)
       ELSE IF After(Strptime(text, first), now) THEN IsNa(out)
       ELSE out = Text(IsoDate(Strptime(text, first)))

C11_DateStandardization ==
    AfterCall("standardize_dates") =>
        /\ \A i \in 1..Len(df) :
               NotNa(before[i]["order_date"]) =>
                   DateAsSpecified(before[i]["order_date"], df[i]["order_date"])
        /\ \A i \in 1..Len(df) :
               NotNa(df[i]["order_date"]) =>
                   /\ IsIsoText(df[i]["order_date"].s)
                   /\ DateOfIso(df[i]["order_date"].s) # NoDate
                   /\ ~After(DateOfIso(df[i]["order_date"].s), now)
        /\ LoggedCount("standardize_dates") =
               Cardinality({i \in 1..Len(df) :
                               NotNa(before[i]["order_date"]) /\ IsNa(df[i]["order_date"])})

\* What does hold: the same statement for the years from 1000 on, and for
\* every year where strftime fills the year with zeros.
DatesStandardizedFromYear1000 ==
    (AfterCall("standardize_dates") /\ ~pads_year) =>
        \A i \in 1..Len(df) :
            \/ IsNa(before[i]["order_date"])
            \/ DateAsSpecified(before[i]["order_date"], df[i]["order_date"])
            \/ /\ Strptime(Strip(Str(before[i]["order_date"])), 3) # NoDate
               /\ Strptime(Strip(Str(before[i]["order_date"])), 3)[1] < 1000

DatesStandardizedOnPaddingBuilds ==
    (AfterCall("standardize_dates") /\ pads_year) => C11_DateStandardization

(***************************************************************************)
(* C12: standardize_categories turns a category that is a key of the       *)
(* lookup table (the exact text, case included) into the key's canonical   *)
(* name, one of Electronics, Clothing, Home & Garden and Books, and every  *)
(* other category into the category with each word capitalized.  An entry  *)
(* is logged only when the number of distinct categories went down, and    *)
(* its count is the decrease.                                              *)
(***************************************************************************)
CanonicalCategories == {"Electronics", "Clothing", "Home & Garden", "Books"}

Distinct(table, c) == {table[i][c] : i \in 1..Len(table)} \ {Absent}

\* The entry the latest call should have appended when the distinct values
\* of column c went from m to n.
LoggedDecrease(step, m, n) ==
    IF n < m
    THEN /\ Len(Appended) = 1
         /\ Appended[1].step = step
         /\ Appended[1].count = m - n
    ELSE Appended = <<>>

C12_CategoryCanonicalization ==
    AfterCall("standardize_categories") =>
        /\ \A i \in 1..Len(df) :
               LET v == before[i]["category"]
                   r == df[i]["category"]
               IN NotNa(v) =>
                      IF v.s \in DOMAIN category_mapping
                      THEN /\ r = Text(category_mapping[v.s])
                           /\ r.s \in CanonicalCategories
                      ELSE r = Text(Title(v.s))
        /\ LoggedDecrease("standardize_categories",
                          Cardinality(Distinct(before, "category")),
                          Cardinality(Distinct(df, "category")))

\* Two spellings of one category became its canonical name, and the
\* decrease of one was logged.
C12_Witness ==
    /\ AfterCall("standardize_categories")
    /\ Len(df) = 2
    /\ before[1]["category"] = Text("elec")
    /\ before[2]["category"] = Text("Electronics")
    /\ df[1]["category"] = Text("Electronics")
    /\ df[2]["category"] = Text("Electronics")
    /\ LoggedCount("standardize_categories") = 1

(***************************************************************************)
(* C14: after clean_quantities every quantity is absent or an integer      *)
(* above zero.  A present input is read as a number and truncated toward   *)
(* zero; it becomes absent when the truncated value is zero or less (a     *)
(* fraction between -1 and 1 included) or when it is not a number, and     *)
(* the truncated value otherwise.  The count logged as clean_quantities is *)
(* the number of rows whose quantity was present and is absent.            *)
(* A column that holds integers and absent values is a float64 column, in  *)
(* which the integer 7 is the value 7.0.                                   *)
(* The statement is about the calls that return: on an infinite quantity   *)
(* the step raises (C6).                                                   *)
(***************************************************************************)
\* The cell holds a whole number above zero.
IsPositiveInteger(cell) ==
    /\ cell.kind \in {"int", "float"}
    /\ LET n == ParseFloat(cell.s)
       IN n.cls = "fin" /\ n.fp = "" /\ ~n.neg /\ n.ip # "0"

QuantityAsSpecified(in, out) ==
    LET n == ParseFloat(Strip(Str(in)))
    IN IF n.cls # "fin" THEN IsNa(out)
       ELSE IF n.neg \/ n.ip = "0" THEN IsNa(out)
       ELSE IsPositiveInteger(out) /\ ParseFloat(out.s).ip = n.ip

C14_QuantityInvariant ==
    AfterCall("clean_quantities") =>
        /\ \A i \in 1..Len(df) :
               IsNa(df[i]["quantity"]) \/ IsPositiveInteger(df[i]["quantity"])
        /\ \A i \in 1..Len(df) :
               NotNa(before[i]["quantity"]) =>
                   QuantityAsSpecified(before[i]["quantity"], df[i]["quantity"])
        /\ LoggedCount("clean_quantities") =
               Cardinality({i \in 1..Len(df) :
                               NotNa(before[i]["quantity"]) /\ IsNa(df[i]["quantity"])})

\* 1.9 was truncated to 1, 0.5 was truncated to 0 and made absent, and the
\* one removal was logged.
C14_Witness ==
    /\ AfterCall("clean_quantities")
    /\ Len(df) = 2
    /\ before[1]["quantity"].s = "1.9"
    /\ before[2]["quantity"].s = "0.5"
    /\ df[1]["quantity"].s = "1.0"
    /\ IsNa(df[2]["quantity"])
    /\ LoggedCount("clean_quantities") = 1

(***************************************************************************)
(* C15: standardize_status turns a status that is a key of the lookup      *)
(* table into the key's canonical name, one of Pending, Shipped, Delivered *)
(* and Cancelled, and leaves every other status as it is.  An entry is     *)
(* logged only when the number of distinct statuses went down, and its     *)
(* count is the decrease.                                                  *)
(***************************************************************************)
CanonicalStatuses == {"Pending", "Shipped", "Delivered", "Cancelled"}

C15_StatusCanonicalization ==
    AfterCall("standardize_status") =>
        /\ \A i \in 1..Len(df) :
               LET v == before[i]["status"]
                   r == df[i]["status"]
               IN NotNa(v) =>
                      IF v.s \in DOMAIN status_mapping
                      THEN /\ r = Text(status_mapping[v.s])
                           /\ r.s \in CanonicalStatuses
                      ELSE r = v
        /\ LoggedDecrease("standardize_status",
                          Cardinality(Distinct(before, "status")),
                          Cardinality(Distinct(df, "status")))

\* Two spellings of Pending became Pending, a decrease of one that was
\* logged.
C15_Witness ==
    /\ AfterCall("standardize_status")
    /\ Len(df) = 2
    /\ {before[1]["status"], before[2]["status"]} = {Text("P"), Text("pending")}
    /\ df[1]["status"] = Text("Pending")
    /\ df[2]["status"] = Text("Pending")
    /\ LoggedCount("standardize_status") = 1

\* A status outside the table stays as it is, "unknown" and the "nan" of an
\* empty field included.
StatusOutsideTableKept ==
    AfterCall("standardize_status") =>
        \A i \in 1..Len(df) :
            before[i]["status"].s \in {"unknown", "nan", "Shipped"} =>
                df[i]["status"] = before[i]["status"]


(***************************************************************************)
(* C13: after a run of the whole pipeline every email left is lower-case   *)
(* and matches the validation pattern from its first character to its      *)
(* last; an email of the input that is a valid address but for the case    *)
(* of its letters and white space around it is kept, trimmed and in lower  *)
(* case, and is not counted as invalid.  That rests on clean_whitespace    *)
(* running first: standardize_emails lowers the case but does not trim,    *)
(* so applied to the email as loaded it would not give the trimmed form.   *)
(***************************************************************************)
MatchesWhole(s) == EmailMatches(s) /\ (s = "" \/ Last(s) # "\n")

\* A valid address but for letter case and surrounding white space.
IsAddressVariant(cell) ==
    cell.kind = "text" /\ MatchesWhole(Lower(Strip(cell.s)))

IsPadded(cell) == cell.kind = "text" /\ Strip(cell.s) # cell.s

C13_EmailInvariant ==
    PipelineDone =>
        /\ \A i \in 1..Len(df) :
               NotNa(df[i]["email"]) =>
                   /\ df[i]["email"].kind = "text"
                   /\ Lower(df[i]["email"].s) = df[i]["email"].s
                   /\ MatchesWhole(df[i]["email"].s)
        /\ \A i \in 1..Len(df) :
               IsAddressVariant(Deduped[i]["email"]) =>
                   df[i]["email"] = Text(Lower(Strip(Deduped[i]["email"].s)))
        /\ LoggedCount("standardize_emails") <=
               Cardinality({i \in 1..Len(df) : ~IsAddressVariant(Deduped[i]["email"])})
        /\ \A i \in 1..Len(df) :
               (IsAddressVariant(Deduped[i]["email"]) /\ IsPadded(Deduped[i]["email"])) =>
                   EmailCell(Deduped[i]["email"])
                       # Text(Lower(Strip(Deduped[i]["email"].s)))

\* An upper-case address followed by blanks was kept, trimmed and lowered,
\* and nothing was counted as invalid.
C13_Witness ==
    /\ PipelineDone
    /\ Len(df) = 1
    /\ Deduped[1]["email"] = Text("JOHN.DOE@EXAMPLE.COM  ")
    /\ df[1]["email"] = Text("john.doe@example.com")
    /\ LoggedBy("standardize_emails") = {}

(***************************************************************************)
(* C16: in every run of the pipeline the table is loaded first, and when   *)
(* loading fails no step runs and the log stays empty; then the nine steps *)
(* run once each, in the order remove_duplicates, clean_whitespace,        *)
(* standardize_emails, clean_phone_numbers, standardize_dates,             *)
(* clean_prices, clean_quantities, standardize_categories,                 *)
(* standardize_status, none skipped and none repeated.  The log only       *)
(* grows, by at most one entry per step, and its entries are in the order  *)
(* of the steps that wrote them.                                           *)
(***************************************************************************)
StepIndex(name) == CHOOSE k \in 1..Len(PipelineCalls) : PipelineCalls[k] = name

\* The calls still to make are the tail of the fixed order.
CallsInOrder ==
    raised = "none" =>
        \E k \in 0..Len(PipelineCalls) :
            calls = SubSeq(PipelineCalls, k + 1, Len(PipelineCalls))

\* A run stops early only when loading failed, with nothing run or logged.
OnlyLoadingStopsTheRun ==
    raised # "none" =>
        /\ raised = "FileNotFoundError"
        /\ df = <<>>
        /\ cleaning_log = <<>>

\* The entries are those of steps already run, one at most for each, in the
\* order of the steps.
LogInStepOrder ==
    /\ \A k \in 1..Len(cleaning_log) :
           /\ cleaning_log[k].step \in {PipelineCalls[j] : j \in 2..Len(PipelineCalls)}
           /\ raised = "none" =>
                  StepIndex(cleaning_log[k].step) <= Len(PipelineCalls) - Len(calls)
    /\ \A j, k \in 1..Len(cleaning_log) :
           j < k => StepIndex(cleaning_log[j].step) < StepIndex(cleaning_log[k].step)

\* Within a run a call that returns is the next of the order, and it leaves
\* the log as it was or with one more entry, its own, at the end.
OneCallOneEntry ==
    run' = run =>
        /\ raised' = "none" => (calls # <<>> /\ calls' = Tail(calls))
        /\ \/ cleaning_log' = cleaning_log
           \/ /\ Len(cleaning_log') = Len(cleaning_log) + 1
              /\ SubSeq(cleaning_log', 1, Len(cleaning_log)) = cleaning_log
              /\ calls # <<>>
              /\ cleaning_log'[Len(cleaning_log')].step = Head(calls)

C16_StepAndLogOrdering ==
    /\ [](CallsInOrder /\ OnlyLoadingStopsTheRun /\ LogInStepOrder)
    /\ [][OneCallOneEntry]_vars

\* What does hold: the order of the calls and of the log, whatever stops the
\* run.
CallsAndLogOrdered ==
    /\ [](CallsInOrder /\ LogInStepOrder)
    /\ [][OneCallOneEntry]_vars

====
